---- MODULE Spec2Model ----
(***************************************************************************)
(* The enquiry handler of api/enquiries.js: one async function per HTTP    *)
(* request.  It sets the CORS headers, gates on the method, obtains the    *)
(* JSON body (req.body, or the request stream), checks the honeypot,       *)
(* validates five fields, builds the enquiry record, optionally sends one  *)
(* email through Resend and responds.                                      *)
(*                                                                         *)
(* src/unnamed/part_000 is the same handler without the email block (its   *)
(* lines 1-130 and 140-151 are lines 1-135 and 196-207 of                  *)
(* api/enquiries.js); it behaves as api/enquiries.js does with the mail    *)
(* configuration absent.                                                   *)
(***************************************************************************)
EXTENDS Integers, Sequences, FiniteSets

VARIABLES
    env,        \* process.env: which of RESEND_API_KEY, ENQUIRIES_TO are set
    req,        \* per invocation: the request (method, body, stream content)
    pc,         \* per invocation: where the async handler stands
    headers,    \* per invocation: headers set on res so far
    stream,     \* per invocation: the request stream (tokens left, phase)
    data,       \* per invocation: getJsonBody's accumulated `data`
    promise,    \* per invocation: the promise getJsonBody returned
    errors,     \* per invocation: the `errors` object of the validation
    enquiry,    \* per invocation: the enquiry record built
    send,       \* per invocation: state of the resend.emails.send promise
    outbox,     \* per invocation: the emails handed to resend.emails.send
    responses   \* per invocation: the responses sent on res, in order

vars == <<env, req, pc, headers, stream, data, promise, errors, enquiry,
          send, outbox, responses>>

----------------------------------------------------------------------------
(* JavaScript values.  A string is a sequence of one-character strings.    *)

Undef  == [t |-> "undefined", s |-> <<>>]
\* the number 42 (truthy, not a string)
Num    == [t |-> "number", s |-> <<>>]
\* a JSON object without a callable toString, such as {"toString": 1}:
\* truthy, not a string, and String(v) throws a TypeError
BadObj == [t |-> "object", s |-> <<>>]
Str(s) == [t |-> "string", s |-> s]

\* JavaScript truthiness of the values above
Truthy(v) ==
    CASE v.t = "undefined" -> FALSE
      [] v.t = "string"    -> v.s # <<>>
      [] OTHER             -> TRUE

WhiteSpace == {" ", "\n", "\t"}

RECURSIVE TrimStart(_)
TrimStart(s) ==
    IF s # <<>> /\ Head(s) \in WhiteSpace THEN TrimStart(Tail(s)) ELSE s

RECURSIVE TrimEnd(_)
TrimEnd(s) ==
    IF s # <<>> /\ s[Len(s)] \in WhiteSpace
    THEN TrimEnd(SubSeq(s, 1, Len(s) - 1))
    ELSE s

\* String.prototype.trim
Trim(s) == TrimEnd(TrimStart(s))

\* a character of the class [^@\s]
Plain(c) == c # "@" /\ c \notin WhiteSpace

AllPlain(s, lo, hi) == lo <= hi /\ \A k \in lo..hi : Plain(s[k])

\* /^[^@\s]+@[^@\s]+\.[^@\s]+$/.test(s)
emailRegexTest(s) ==
    \E i \in 1..Len(s) : \E j \in 1..Len(s) :
        /\ s[i] = "@"
        /\ s[j] = "."
        /\ i < j
        /\ AllPlain(s, 1, i - 1)
        /\ AllPlain(s, i + 1, j - 1)
        /\ AllPlain(s, j + 1, Len(s))

allowedRoles == <<Str(<<"t","e","n","a","n","t">>),
                  Str(<<"i","n","v","e","s","t","o","r">>),
                  Str(<<"p","a","r","t","n","e","r">>),
                  Str(<<"o","t","h","e","r">>)>>

\* Array.prototype.includes
Includes(arr, v) == \E k \in 1..Len(arr) : arr[k] = v

----------------------------------------------------------------------------
(* Request bodies.  The fields the handler destructures.                   *)

Fields == {"name", "email", "organisation", "role", "message",
           "source_page", "phone", "utm_source", "honeypot"}

\* the properties of {} (and of null || {}, and of a number): all undefined
NoFields == [f \in Fields |-> Undef]

\* Parsed JSON values: an object with its properties, or null.
JObject(f) == [k |-> "object", f |-> f]
JNull      == [k |-> "null", f |-> NoFields]

\* JSON text is a sequence of tokens: "{", the members, "}", or null.
Tok(t)     == [tok |-> t, f |-> NoFields]
Members(f) == [tok |-> "members", f |-> f]

\* JSON.stringify of an object with properties f
Encode(f) ==
    IF f = NoFields THEN <<Tok("{"), Tok("}")>>
    ELSE <<Tok("{"), Members(f), Tok("}")>>

\* JSON.parse: the value of a well-formed text, a SyntaxError otherwise
\* (the empty text is not well-formed).
JSONparse(text) ==
    CASE Len(text) = 1 /\ text[1].tok = "null" ->
            [ok |-> TRUE, v |-> JNull]
      [] Len(text) = 2 /\ text[1].tok = "{" /\ text[2].tok = "}" ->
            [ok |-> TRUE, v |-> JObject(NoFields)]
      [] Len(text) = 3 /\ text[1].tok = "{" /\ text[2].tok = "members"
                       /\ text[3].tok = "}" ->
            [ok |-> TRUE, v |-> JObject(text[2].f)]
      [] OTHER -> [ok |-> FALSE, v |-> JNull]

\* req.body: undefined, a raw string, or an already parsed object
BodyUndef      == [k |-> "undefined", text |-> <<>>, f |-> NoFields]
BodyString(tx) == [k |-> "string", text |-> tx, f |-> NoFields]
BodyObject(f)  == [k |-> "object", text |-> <<>>, f |-> f]

\* truthiness of req.body (line 12)
BodyTruthy(b) ==
    CASE b.k = "undefined" -> FALSE
      [] b.k = "string"    -> b.text # <<>>
      [] OTHER             -> TRUE

\* A promise: pending, resolved with a value, or rejected.
Pending     == [state |-> "pending", v |-> JNull]
Resolved(v) == [state |-> "resolved", v |-> v]
Rejected    == [state |-> "rejected", v |-> JNull]
NoPromise   == [state |-> "none", v |-> JNull]

\* faulty variant: a parse failure is swallowed and the body taken as {}
getJsonBodyLenient(b) ==
    IF b.k = "string"
    THEN IF JSONparse(b.text).ok
         THEN Resolved(JSONparse(b.text).v)
         ELSE Resolved(JObject(NoFields))
    ELSE Resolved(JObject(b.f))

\* getJsonBody, lines 12-22: req.body is truthy
getJsonBodyDirect(b) ==
    IF b.k = "string"
    THEN IF JSONparse(b.text).ok
         THEN Resolved(JSONparse(b.text).v)
         ELSE Rejected
    ELSE Resolved(JObject(b.f))

\* getJsonBody, lines 30-37: the 'end' listener
onEnd(d) ==
    IF d # <<>>
    THEN IF JSONparse(d).ok THEN Resolved(JSONparse(d).v) ELSE Rejected
    ELSE Resolved(JObject(NoFields))

\* settling a promise: only the first resolve/reject counts
Settle(p, outcome) == IF p.state = "pending" THEN outcome ELSE p

\* const {...} = body || {}  (lines 65-75)
Destructure(body) == IF body.k = "object" THEN body.f ELSE NoFields

----------------------------------------------------------------------------
(* Honeypot and validation, lines 77-122.                                  *)

\* faulty variant: the honeypot is never looked at
HoneypotIgnored(h) == "pass"

\* line 78: honeypot && honeypot.trim() !== ''
\* "throw": honeypot is truthy and has no trim method (TypeError)
HoneypotCheck(h) ==
    IF ~Truthy(h) THEN "pass"
    ELSE IF h.t # "string" THEN "throw"
    ELSE IF Trim(h.s) # <<>> THEN "spam"
    ELSE "pass"

MinNameLen == 2
MinMessageLen == 10

NameFails(v) ==
    ~Truthy(v) \/ v.t # "string" \/ Len(Trim(v.s)) < MinNameLen

EmailFails(v) ==
    ~Truthy(v) \/ v.t # "string" \/ ~emailRegexTest(v.s)

MessageFails(v) ==
    ~Truthy(v) \/ v.t # "string" \/ Len(Trim(v.s)) < MinMessageLen

RoleFails(v) == ~Truthy(v) \/ ~Includes(allowedRoles, v)

SourcePageFails(v) == ~Truthy(v) \/ v.t # "string"

\* errors.key = msg
Put(e, key, msg) ==
    [x \in (DOMAIN e) \cup {key} |-> IF x = key THEN msg ELSE e[x]]

\* faulty variant: errors is a module-level object shared by the invocations
NewErrorsShared(errs, i) ==
    LET keys == UNION {DOMAIN errs[j] : j \in DOMAIN errs} IN
    [x \in keys |->
        LET j == CHOOSE j \in DOMAIN errs : x \in DOMAIN errs[j] IN errs[j][x]]

\* const errors = {}  (line 84): a fresh object for this invocation
NewErrors(errs, i) == [x \in {} |-> ""]

\* lines 86-115: five independent checks, each adding its key
Validate(sub, e0) ==
    LET e1 == IF NameFails(sub.name)
              THEN Put(e0, "name", "Name is required.") ELSE e0
        e2 == IF EmailFails(sub.email)
              THEN Put(e1, "email", "Valid email required.") ELSE e1
        e3 == IF MessageFails(sub.message)
              THEN Put(e2, "message", "Message is too short.") ELSE e2
        e4 == IF RoleFails(sub.role)
              THEN Put(e3, "role", "Invalid role.") ELSE e3
        e5 == IF SourcePageFails(sub.source_page)
              THEN Put(e4, "source_page", "Source page missing.") ELSE e4
    IN  e5

----------------------------------------------------------------------------
(* The enquiry record, lines 124-135.                                      *)

\* String(v) for the values that have a string conversion
StringOf(v) == IF v.t = "string" THEN v.s ELSE <<"4", "2">>

\* String(v) throws: v has no callable toString / valueOf to a primitive
StringThrows(v) == v.t = "object"

\* x ? String(x).trim() : ''
Optional(v) == IF Truthy(v) THEN Trim(StringOf(v)) ELSE <<>>

BuildThrows(sub) ==
    \E f \in {"organisation", "phone", "utm_source"} :
        Truthy(sub[f]) /\ StringThrows(sub[f])

BuildEnquiry(sub) ==
    [name         |-> Trim(sub.name.s),
     email        |-> Trim(sub.email.s),
     organisation |-> Optional(sub.organisation),
     role         |-> sub.role.s,
     message      |-> Trim(sub.message.s),
     source_page  |-> Trim(sub.source_page.s),
     phone        |-> Optional(sub.phone),
     utm_source   |-> Optional(sub.utm_source),
     received_at  |-> "new Date().toISOString()"]


----------------------------------------------------------------------------
(* Responses and mail.                                                     *)

CorsHeaders ==
    {<<"Access-Control-Allow-Origin", "*">>,
     <<"Access-Control-Allow-Methods", "POST, OPTIONS">>,
     <<"Access-Control-Allow-Headers", "Content-Type">>}

AllowHeader == <<"Allow", "POST, OPTIONS">>

NoErrors == [x \in {} |-> ""]

\* what res.status(code).end() / res.status(code).json(body) sends; the
\* headers are those set on res at that moment
Response(code, hasBody, status, message, errs, hdrs) ==
    [code |-> code, hasBody |-> hasBody, status |-> status,
     message |-> message, errors |-> errs, headers |-> hdrs]

R204(h) == Response(204, FALSE, "", "", NoErrors, h)
R405(h) == Response(405, TRUE, "error", "Method not allowed. Use POST.",
                    NoErrors, h)
RSpam(h) == Response(200, TRUE, "ok", "Thanks.", NoErrors, h)
R400(e, h) == Response(400, TRUE, "error", "", e, h)
ROk(h) == Response(200, TRUE, "ok",
    "Thank you. We have received your enquiry and will be in touch shortly.",
    NoErrors, h)
R500(h) == Response(500, TRUE, "error",
    "Something went wrong on our side. Please try again later.", NoErrors, h)

\* message.replace(/\n/g, '<br />')
RECURSIVE ReplaceNewlines(_)
ReplaceNewlines(s) ==
    IF s = <<>> THEN <<>>
    ELSE (IF Head(s) = "\n" THEN <<"<br />">> ELSE <<Head(s)>>)
         \o ReplaceNewlines(Tail(s))

\* x || '-'
OrDash(s) == IF s = <<>> THEN <<"-">> ELSE s

\* lines 141-187: the argument of resend.emails.send (the dashes of the
\* subject written in ASCII)
Mail(e, q) ==
    [from    |-> IF Truthy(e.ENQUIRIES_FROM) THEN e.ENQUIRIES_FROM.s
                 ELSE <<"onboarding@resend.dev">>,
     to      |-> e.ENQUIRIES_TO.s,
     subject |-> <<"New Nsagu Park enquiry - ">> \o q.role
                 \o <<" - ">> \o q.name,
     text    |-> <<q.name, q.email, OrDash(q.organisation), q.role,
                   OrDash(q.phone), q.source_page, OrDash(q.utm_source),
                   q.message, q.received_at>>,
     html    |-> <<q.name, q.email, OrDash(q.organisation), q.role,
                   OrDash(q.phone), q.source_page, OrDash(q.utm_source),
                   ReplaceNewlines(q.message), q.received_at>>]

\* faulty variant: && in place of || at line 144, one of the two settings is enough
MailConfiguredEither(e) == Truthy(e.RESEND_API_KEY) \/ Truthy(e.ENQUIRIES_TO)

\* line 144: !process.env.RESEND_API_KEY || !toAddress
MailConfigured(e) == Truthy(e.RESEND_API_KEY) /\ Truthy(e.ENQUIRIES_TO)

\* faulty variant: the send is not awaited
SendNotAwaited(s) == TRUE

\* `await p` lets the handler go on once p has settled (lines 63, 181)
BodyAwaited(p) == p.state \in {"resolved", "rejected"}
SendAwaited(s) == s \in {"resolved", "rejected"}


----------------------------------------------------------------------------
(* Inputs.                                                                 *)

NumInv   == 2    \* invocations in flight in the concurrent specification
MaxChunk == 2    \* most tokens one 'data' event delivers

Inv == 1..NumInv

Names     == {Undef, Num, Str(<<" ", "J", " ">>), Str(<<" ", "J", "o">>)}
Emails    == {Undef, Str(<<"j", "@", "x">>), Str(<<"j", "@", "x", ".", "c">>)}
Messages  == {Undef,
              Str(<<" ", "h", "i", " ", " ", " ", " ", " ", " ", " ", " ">>),
              Str(<<"H", "i", ",", "\n", "l", "e", "a", "s", "e", "?">>)}
Roles     == {Undef, Str(<<"a", "d", "m", "i", "n">>),
              Str(<<"o", "t", "h", "e", "r">>)}
Pages     == {Undef, Num, Str(<<" ">>), Str(<<"/", "c">>)}
Honeypots == {Undef, Num, Str(<<" ">>), Str(<<"b", "o", "t">>)}

\* organisation, phone, utm_source
Optionals == {<<Undef, Undef, Undef>>,
              <<Str(<<" ", "A", "c", "m", "e">>), Num, Str(<<"a", "d", " ">>)>>,
              <<BadObj, Undef, Undef>>}

Submission(n, e, m, r, p, h, o) ==
    [name |-> n, email |-> e, message |-> m, role |-> r, source_page |-> p,
     honeypot |-> h, organisation |-> o[1], phone |-> o[2],
     utm_source |-> o[3]]

Submissions ==
    {Submission(n, e, m, r, p, h, o) :
        n \in Names, e \in Emails, m \in Messages, r \in Roles, p \in Pages,
        h \in Honeypots, o \in Optionals}

\* the example of the specification, section 8
GoodSub == Submission(Str(<<" ", "J", "o">>), Str(<<"j", "@", "x", ".", "c">>),
                      Str(<<"H", "i", ",", "\n", "l", "e", "a", "s", "e", "?">>),
                      Str(<<"o", "t", "h", "e", "r">>), Str(<<"/", "c">>),
                      Undef, <<Undef, Undef, Undef>>)
SpamSub == [GoodSub EXCEPT !.honeypot = Str(<<"b", "o", "t">>),
                           !.name = Undef]
BadSub  == [GoodSub EXCEPT !.name = Undef, !.role = Undef]

\* JSON texts: well-formed ones, a truncated one, a stray brace
Texts == {Encode(GoodSub), Encode(BadSub), Encode(NoFields), <<Tok("null")>>,
          <<Tok("{"), Members(GoodSub)>>, <<Tok("}")>>}

Request(m, b, st) == [method |-> m, body |-> b, stream |-> st]
NoRequest == Request("", BodyUndef, <<>>)

\* POST with req.body already parsed by the platform
ObjectPosts == {Request("POST", BodyObject(f), <<>>) : f \in Submissions}
\* POST with req.body a raw, non-empty string
StringPosts == {Request("POST", BodyString(tx), <<>>) : tx \in Texts}
\* POST with req.body falsy (undefined or ''): the stream is read
StreamPosts == {Request("POST", b, tx) :
                   b \in {BodyUndef, BodyString(<<>>)},
                   tx \in Texts \cup {<<>>}}
\* any other method, with bodies of every kind
OtherMethods == {"OPTIONS", "GET", "PUT", "post"}
Others == {Request(m, b, tx) :
              m \in OtherMethods,
              b \in {BodyUndef, BodyString(<<Tok("}")>>), BodyObject(GoodSub)},
              tx \in {<<>>, <<Tok("}")>>} }

Requests == ObjectPosts \cup StringPosts \cup StreamPosts \cup Others

\* the requests of the concurrent specification
SmallRequests ==
    {Request("POST", BodyObject(f), <<>>) : f \in {GoodSub, BadSub, SpamSub}}
    \cup {Request("POST", BodyUndef, Encode(BadSub)),
          Request("GET", BodyUndef, <<>>)}

Address == Str(<<"a", "@", "b", ".", "c">>)
Env(k, to, from) ==
    [RESEND_API_KEY |-> k, ENQUIRIES_TO |-> to, ENQUIRIES_FROM |-> from]
Envs == {Env(Undef, Undef, Undef), Env(Str(<<"k">>), Undef, Undef),
         Env(Undef, Address, Undef), Env(Str(<<"k">>), Address, Undef),
         Env(Str(<<"k">>), Address, Address)}

----------------------------------------------------------------------------
(* The state machine.                                                      *)

InitFor(rq) ==
    /\ req = rq
    /\ pc = [i \in Inv |-> IF rq[i] = NoRequest THEN "idle" ELSE "start"]
    /\ headers = [i \in Inv |-> {}]
    /\ stream = [i \in Inv |-> [left |-> rq[i].stream, phase |-> "paused"]]
    /\ data = [i \in Inv |-> <<>>]
    /\ promise = [i \in Inv |-> NoPromise]
    /\ errors = [i \in Inv |-> NoErrors]
    /\ enquiry = [i \in Inv |-> <<>>]
    /\ send = [i \in Inv |-> "none"]
    /\ outbox = [i \in Inv |-> <<>>]
    /\ responses = [i \in Inv |-> <<>>]

\* one invocation, any request
Init ==
    /\ env \in Envs
    /\ \E r \in Requests :
          InitFor([i \in Inv |-> IF i = 1 THEN r ELSE NoRequest])

\* one invocation, the requests of the concurrent specification and every
\* textual, streamed and non-POST request
InitLive ==
    /\ env \in Envs
    /\ \E r \in SmallRequests \cup StringPosts \cup StreamPosts \cup Others :
          InitFor([i \in Inv |-> IF i = 1 THEN r ELSE NoRequest])

\* NumInv invocations in flight at once
InitConc ==
    /\ env \in Envs
    /\ \E rq \in [Inv -> SmallRequests] : InitFor(rq)

\* res.status(..).json(..) / .end(): the response goes out and the handler
\* returns
Respond(i, r) ==
    /\ responses' = [responses EXCEPT ![i] = Append(@, r)]
    /\ pc' = [pc EXCEPT ![i] = "done"]

\* faulty variant: the Access-Control-Allow-Headers line is missing
SetCorsIncomplete(h) ==
    h \cup {<<"Access-Control-Allow-Origin", "*">>,
            <<"Access-Control-Allow-Methods", "POST, OPTIONS">>}

\* lines 45-48
SetCors(h) == h \cup CorsHeaders

\* faulty variant: the 405 branch is missing, any method but OPTIONS is processed
MethodGateNoReject(m) == IF m = "OPTIONS" THEN "preflight" ELSE "process"

\* lines 50 and 54: which branch the method takes
MethodGate(m) ==
    IF m = "OPTIONS" THEN "preflight"
    ELSE IF m # "POST" THEN "reject"
    ELSE "process"

\* Lines 44-63: CORS headers, the method gate, and the call of getJsonBody
\* up to its first suspension.
Start(i) ==
    /\ pc[i] = "start"
    /\ LET h == SetCors(headers[i]) IN
       IF MethodGate(req[i].method) = "preflight" THEN
           /\ headers' = [headers EXCEPT ![i] = h]
           /\ Respond(i, R204(h))
           /\ UNCHANGED <<stream, promise>>
       ELSE IF MethodGate(req[i].method) = "reject" THEN
           /\ headers' = [headers EXCEPT ![i] = h \cup {AllowHeader}]
           /\ Respond(i, R405(h \cup {AllowHeader}))
           /\ UNCHANGED <<stream, promise>>
       ELSE
           /\ headers' = [headers EXCEPT ![i] = h]
           /\ pc' = [pc EXCEPT ![i] = "awaitBody"]
           /\ UNCHANGED responses
           /\ IF BodyTruthy(req[i].body) THEN
                  /\ promise' = [promise EXCEPT
                                   ![i] = getJsonBodyDirect(req[i].body)]
                  /\ UNCHANGED stream
              ELSE
                  /\ promise' = [promise EXCEPT ![i] = Pending]
                  /\ stream' = [stream EXCEPT ![i].phase = "flowing"]
    /\ UNCHANGED <<env, req, data, errors, enquiry, send, outbox>>

\* Lines 27-29: a 'data' event, data += chunk
StreamData(i) ==
    /\ stream[i].phase = "flowing"
    /\ stream[i].left # <<>>
    /\ \E n \in 1..MaxChunk :
          /\ n <= Len(stream[i].left)
          /\ data' = [data EXCEPT ![i] = @ \o SubSeq(stream[i].left, 1, n)]
          /\ stream' = [stream EXCEPT
                ![i].left = SubSeq(@, n + 1, Len(@))]
    /\ UNCHANGED <<env, req, pc, headers, promise, errors, enquiry, send,
                   outbox, responses>>

\* Lines 30-37: the 'end' event, once the whole body was delivered
StreamEnd(i) ==
    /\ stream[i].phase = "flowing"
    /\ stream[i].left = <<>>
    /\ stream' = [stream EXCEPT ![i].phase = "ended"]
    /\ promise' = [promise EXCEPT ![i] = Settle(@, onEnd(data[i]))]
    /\ UNCHANGED <<env, req, pc, headers, data, errors, enquiry, send,
                   outbox, responses>>

\* Lines 38-40: an 'error' event, at any point of the transfer (one that
\* comes after 'end' finds the promise settled)
StreamError(i) ==
    /\ stream[i].phase \in {"flowing", "ended"}
    /\ stream' = [stream EXCEPT ![i].phase =
                    IF @ = "ended" THEN "erroredAfterEnd" ELSE "errored"]
    /\ promise' = [promise EXCEPT ![i] = Settle(@, Rejected)]
    /\ UNCHANGED <<env, req, pc, headers, data, errors, enquiry, send,
                   outbox, responses>>

\* Lines 63-181 and 200-206: the handler resumes with the body (or the
\* rejection) and runs to its response or to the await of the send.
ResumeBody(i) ==
    /\ pc[i] = "awaitBody"
    /\ BodyAwaited(promise[i])
    /\ LET sub == Destructure(promise[i].v)
           hp  == HoneypotCheck(sub.honeypot)
           e   == Validate(sub, NewErrors(errors, i))
           h   == headers[i]
       IN
       IF promise[i].state = "rejected" \/ hp = "throw" THEN
           /\ Respond(i, R500(h))
           /\ UNCHANGED <<errors, enquiry, send, outbox>>
       ELSE IF hp = "spam" THEN
           /\ Respond(i, RSpam(h))
           /\ UNCHANGED <<errors, enquiry, send, outbox>>
       ELSE IF DOMAIN e # {} THEN
           /\ errors' = [errors EXCEPT ![i] = e]
           /\ Respond(i, R400(e, h))
           /\ UNCHANGED <<enquiry, send, outbox>>
       ELSE IF BuildThrows(sub) THEN
           /\ errors' = [errors EXCEPT ![i] = e]
           /\ Respond(i, R500(h))
           /\ UNCHANGED <<enquiry, send, outbox>>
       ELSE IF ~MailConfigured(env) THEN
           /\ errors' = [errors EXCEPT ![i] = e]
           /\ enquiry' = [enquiry EXCEPT ![i] = <<BuildEnquiry(sub)>>]
           /\ Respond(i, ROk(h))
           /\ UNCHANGED <<send, outbox>>
       ELSE
           /\ errors' = [errors EXCEPT ![i] = e]
           /\ enquiry' = [enquiry EXCEPT ![i] = <<BuildEnquiry(sub)>>]
           /\ outbox' = [outbox EXCEPT
                           ![i] = Append(@, Mail(env, BuildEnquiry(sub)))]
           /\ send' = [send EXCEPT ![i] = "pending"]
           /\ pc' = [pc EXCEPT ![i] = "awaitSend"]
           /\ UNCHANGED responses
    /\ UNCHANGED <<env, req, headers, stream, data, promise>>

\* Resend settles the send: delivered ...
SendResolves(i) ==
    /\ send[i] = "pending"
    /\ send' = [send EXCEPT ![i] = "resolved"]
    /\ UNCHANGED <<env, req, pc, headers, stream, data, promise, errors,
                   enquiry, outbox, responses>>

\* ... or failed (the promise rejects, the await throws)
SendRejects(i) ==
    /\ send[i] = "pending"
    /\ send' = [send EXCEPT ![i] = "rejected"]
    /\ UNCHANGED <<env, req, pc, headers, stream, data, promise, errors,
                   enquiry, outbox, responses>>

\* Lines 181-199: the handler resumes after the send; a rejection is caught
\* and logged (lines 189-192), and the response is the same.
ResumeSend(i) ==
    /\ pc[i] = "awaitSend"
    /\ SendAwaited(send[i])
    /\ Respond(i, ROk(headers[i]))
    /\ UNCHANGED <<env, req, headers, stream, data, promise, errors,
                   enquiry, send, outbox>>

Next ==
    \E i \in Inv :
        \/ Start(i)
        \/ StreamData(i)
        \/ StreamEnd(i)
        \/ StreamError(i)
        \/ ResumeBody(i)
        \/ SendResolves(i)
        \/ SendRejects(i)
        \/ ResumeSend(i)

Spec == Init /\ [][Next]_vars

SpecConc == InitConc /\ [][Next]_vars


----------------------------------------------------------------------------
(* The rules of the specification, stated on the submission itself.        *)

Done(i) == pc[i] = "done"

\* the handler obtained a body (getJsonBody resolved)
Obtained(i) == req[i].method = "POST" /\ promise[i].state = "resolved"

\* the submission: the properties of the body obtained
Sub(i) == Destructure(promise[i].v)

IsString(v) == v.t = "string"

RoleSet == {Str(<<"t","e","n","a","n","t">>),
            Str(<<"i","n","v","e","s","t","o","r">>),
            Str(<<"p","a","r","t","n","e","r">>),
            Str(<<"o","t","h","e","r">>)}

\* the field passes its rule (specification 4.1, table)
RuleHolds(f, v) ==
    CASE f = "name"        -> IsString(v) /\ Len(Trim(v.s)) >= 2
      [] f = "email"       -> IsString(v) /\ emailRegexTest(v.s)
      [] f = "message"     -> IsString(v) /\ Len(Trim(v.s)) >= 10
      [] f = "role"        -> v \in RoleSet
      [] f = "source_page" -> IsString(v) /\ v.s # <<>>

Required == {"name", "email", "message", "role", "source_page"}

FailingFields(sub) == {f \in Required : ~RuleHolds(f, sub[f])}

\* the honeypot is present and non-empty after trimming
Triggered(sub) == IsString(sub.honeypot) /\ Trim(sub.honeypot.s) # <<>>

\* the honeypot is absent, or a string (the data model of section 3)
HoneypotTyped(sub) == sub.honeypot = Undef \/ IsString(sub.honeypot)

\* the response and nothing else was sent
Sent(i, r) == responses[i] = <<r>>

\* the JSON text the handler had to parse, if it had one: req.body when it
\* is a non-empty string, else what the stream delivered up to its 'end'
HasText(i) ==
    \/ req[i].body.k = "string" /\ BodyTruthy(req[i].body)
    \/ ~BodyTruthy(req[i].body)
         /\ stream[i].phase \in {"ended", "erroredAfterEnd"}
TheText(i) ==
    IF BodyTruthy(req[i].body) THEN req[i].body.text ELSE data[i]

\* a TypeError is thrown while the submission is processed
TypeErrorIn(sub) ==
    \/ Truthy(sub.honeypot) /\ ~IsString(sub.honeypot)
    \/ /\ ~Triggered(sub)
       /\ FailingFields(sub) = {}
       /\ \E f \in {"organisation", "phone", "utm_source"} : sub[f] = BadObj

----------------------------------------------------------------------------
(* Claims.                                                                 *)

\* C1: every POST submission whose required fields are all valid and whose
\* honeypot is not triggered is answered 200 with the fixed success
\* message, whatever the email subsystem does.
C1_ValidGets200 ==
    \A i \in Inv :
        (Done(i) /\ Obtained(i) /\ FailingFields(Sub(i)) = {}
           /\ ~Triggered(Sub(i)))
        => Sent(i, ROk(CorsHeaders))

\* C2: every POST submission (honeypot not triggered) with a missing or
\* invalid required field is answered 400 with {status:"error", errors},
\* the keys of errors being exactly the failing fields.
C2_InvalidGets400 ==
    \A i \in Inv :
        (Done(i) /\ Obtained(i) /\ FailingFields(Sub(i)) # {}
           /\ ~Triggered(Sub(i)))
        => /\ Len(responses[i]) = 1
           /\ responses[i][1].code = 400
           /\ responses[i][1].status = "error"
           /\ DOMAIN responses[i][1].errors = FailingFields(Sub(i))

\* C3: every POST submission whose honeypot is present and non-empty
\* after trimming is answered 200 {status:"ok", message:"Thanks."}, also
\* when required fields are missing or invalid; it never gets a 400.
C3_HoneypotGetsThanks ==
    \A i \in Inv :
        (Obtained(i) /\ Triggered(Sub(i)))
        => /\ Done(i) => Sent(i, RSpam(CorsHeaders))
           /\ \A k \in 1..Len(responses[i]) : responses[i][k].code # 400
           /\ errors[i] = NoErrors

C3_Witness ==
    /\ Done(1) /\ Obtained(1) /\ Triggered(Sub(1))
    /\ FailingFields(Sub(1)) # {}
    /\ Sent(1, RSpam(CorsHeaders))

\* the handler has not touched the body: nothing read, parsed, validated
\* or mailed
BodyUntouched(i) ==
    /\ promise[i] = NoPromise
    /\ stream[i].phase = "paused"
    /\ data[i] = <<>>
    /\ errors[i] = NoErrors
    /\ enquiry[i] = <<>>
    /\ outbox[i] = <<>>

\* C4: OPTIONS is answered 204 without a body, any method other than POST
\* and OPTIONS 405 with the Allow header; in both cases the body is never
\* read, parsed or validated and no email is sent, whatever the body is.
C4_MethodGate ==
    \A i \in Inv :
        /\ req[i].method # "POST" => BodyUntouched(i)
        /\ (Done(i) /\ req[i].method = "OPTIONS")
              => Sent(i, R204(CorsHeaders))
        /\ (Done(i) /\ req[i].method \notin {"POST", "OPTIONS", ""})
              => Sent(i, R405(CorsHeaders \cup {AllowHeader}))

C4_Witness ==
    /\ Done(1) /\ req[1].method = "GET"
    /\ req[1].body = BodyString(<<Tok("}")>>)
    /\ Sent(1, R405(CorsHeaders \cup {AllowHeader}))

\* C5 as stated: every POST whose body is malformed JSON, in req.body or
\* read from the stream, is answered 500.
C5_MalformedGets500 ==
    \A i \in Inv :
        (Done(i) /\ req[i].method = "POST" /\ HasText(i)
           /\ ~JSONparse(TheText(i)).ok)
        => Sent(i, R500(CorsHeaders))

\* C5, amended: every POST whose body is non-empty malformed JSON, whose
\* stream emits 'error' before 'end', or whose processing throws, is
\* answered 500 with the generic message, and no email is sent.
C5_NonEmptyMalformedGets500 ==
    \A i \in Inv :
        (Done(i) /\ req[i].method = "POST"
           /\ \/ HasText(i) /\ TheText(i) # <<>> /\ ~JSONparse(TheText(i)).ok
              \/ stream[i].phase = "errored"
              \/ Obtained(i) /\ TypeErrorIn(Sub(i)))
        => /\ Sent(i, R500(CorsHeaders))
           /\ outbox[i] = <<>>

C5_Witness ==
    /\ Done(1) /\ req[1].method = "POST"
    /\ req[1].body = BodyString(<<Tok("{"), Members(GoodSub)>>)
    /\ Sent(1, R500(CorsHeaders))

\* C6: an email is sent only for a POST that did not trigger the honeypot,
\* passed the five validations, with RESEND_API_KEY and ENQUIRIES_TO both
\* configured; a 204, 400, 405, 500 or honeypot response comes with no
\* send; and there is at most one send per invocation.
C6_SendOnlyWhenValidAndConfigured ==
    \A i \in Inv :
        /\ Len(outbox[i]) <= 1
        /\ outbox[i] # <<>> =>
              /\ Obtained(i)
              /\ ~Triggered(Sub(i))
              /\ FailingFields(Sub(i)) = {}
              /\ Truthy(env.RESEND_API_KEY) /\ Truthy(env.ENQUIRIES_TO)
        /\ \A k \in 1..Len(responses[i]) :
              responses[i][k] # ROk(CorsHeaders) => outbox[i] = <<>>

C6_Witness ==
    /\ Done(1) /\ send[1] = "rejected" /\ Len(outbox[1]) = 1
    /\ Sent(1, ROk(CorsHeaders))

\* C7: every enquiry record built has name trimmed of length >= 2, email
\* trimmed and matching the pattern, role in the closed set, message
\* trimmed of length >= 10 and source_page trimmed and non-empty.
C7_EnquiryWellFormed ==
    \A i \in Inv : \A k \in 1..Len(enquiry[i]) :
        LET q == enquiry[i][k] IN
        /\ q.name = Trim(q.name) /\ Len(q.name) >= 2
        /\ q.email = Trim(q.email) /\ emailRegexTest(q.email)
        /\ Str(q.role) \in RoleSet
        /\ q.message = Trim(q.message) /\ Len(q.message) >= 10
        /\ q.source_page = Trim(q.source_page) /\ q.source_page # <<>>

\* C8: every response sent, whatever its status, carries the three CORS
\* headers.
C8_CorsOnEveryResponse ==
    \A i \in Inv : \A k \in 1..Len(responses[i]) :
        CorsHeaders \subseteq responses[i][k].headers

C8_Witness ==
    /\ \E c \in {204, 405, 400, 500} : Done(1) /\ responses[1][1].code = c
    /\ CorsHeaders \subseteq responses[1][1].headers

\* C9: validation is deterministic and stateless: invocations that got the
\* same submission end with the same error set and the same response, and
\* the errors of an invocation are those of its own submission, whatever
\* the invocations running beside it do.
C9_Stateless ==
    \A i \in Inv :
        /\ Obtained(i) => DOMAIN errors[i] \subseteq FailingFields(Sub(i))
        /\ \A j \in Inv :
              (Done(i) /\ Done(j) /\ req[i].method = req[j].method
                 /\ promise[i] = promise[j])
              => errors[i] = errors[j] /\ responses[i] = responses[j]

C9_Witness ==
    /\ Done(1) /\ Done(2)
    /\ req[1] # req[2]
    /\ promise[1] = promise[2]
    /\ DOMAIN errors[1] = {"name", "role"}
    /\ Sent(2, R400(errors[1], CorsHeaders))

\* C10: every invocation sends exactly one response, never two and (the
\* stream and the send settling eventually) never none; the 200 of the
\* success path is sent only after the send has resolved or rejected.
C10_ExactlyOneResponse ==
    /\ [](\A i \in Inv :
            /\ Len(responses[i]) <= 1
            /\ Done(i) <=> Len(responses[i]) = 1
            /\ responses[i] # <<>> => send[i] # "pending")
    /\ <>[](\A i \in Inv : pc[i] # "idle" => Len(responses[i]) = 1)

C10_Witness ==
    /\ Done(1) /\ Sent(1, ROk(CorsHeaders))
    /\ send[1] = "resolved"
    /\ stream[1].phase = "erroredAfterEnd"

\* every step the event loop can take is eventually taken: the stream
\* ends or errors, the send settles, a settled await resumes
SpecLive == InitLive /\ [][Next]_vars /\ WF_vars(Next)


----------------------------------------------------------------------------
(* Supporting facts: what the handler does guarantee where a claim above   *)
(* fails.                                                                  *)

\* With the honeypot absent or a string, and no optional field an object
\* that String() cannot convert, valid submissions are answered 200 with
\* the success message.
TypedValidGets200 ==
    \A i \in Inv :
        (Done(i) /\ Obtained(i) /\ FailingFields(Sub(i)) = {}
           /\ ~Triggered(Sub(i)) /\ ~TypeErrorIn(Sub(i)))
        => Sent(i, ROk(CorsHeaders))

\* With the honeypot absent or a string, invalid submissions are answered
\* 400 with exactly the failing fields as keys, each with its message.
TypedInvalidGets400 ==
    \A i \in Inv :
        (Done(i) /\ Obtained(i) /\ FailingFields(Sub(i)) # {}
           /\ ~Triggered(Sub(i)) /\ HoneypotTyped(Sub(i)))
        => /\ Sent(i, R400(errors[i], CorsHeaders))
           /\ DOMAIN errors[i] = FailingFields(Sub(i))

\* Every constraint of the enquiry record but the non-emptiness of
\* source_page holds.
EnquiryWellFormedButPage ==
    \A i \in Inv : \A k \in 1..Len(enquiry[i]) :
        LET q == enquiry[i][k] IN
        /\ q.name = Trim(q.name) /\ Len(q.name) >= 2
        /\ q.email = Trim(q.email) /\ emailRegexTest(q.email)
        /\ Str(q.role) \in RoleSet
        /\ q.message = Trim(q.message) /\ Len(q.message) >= 10
        /\ q.source_page = Trim(q.source_page)


====
